---- MODULE Spec2Model ----
(***************************************************************************)
(* Model of plugins/obs-outputs/ftl-stream.c: the packet queue with its    *)
(* drop policy, the send worker, the connect and status workers and the    *)
(* start/stop/destroy entry points of the FTL output.                      *)
(***************************************************************************)
EXTENDS Integers, Sequences, FiniteSets, TLC

(***************************************************************************)
(* Bounds of the model.                                                    *)
(***************************************************************************)
MaxSubmits == 2
MaxQSubmits == 6
MaxStarts == 2
MaxStops == 2
MaxCallSubmits == 3
MaxBacklogSubmits == 11

(***************************************************************************)
(* Program constants.                                                      *)
(***************************************************************************)
\* OBS_NAL_PRIORITY_HIGHEST, the drop_priority drop_frames never discards
OBS_NAL_PRIORITY_HIGHEST == 3
\* check_to_drop_frames looks at the queue only when it holds 5 packets
MinDropQueueLen == 5

VARIABLES
    packets,            \* stream->packets, the circlebuf, front first
    send_sem,           \* permits of stream->send_sem
    stop_event,         \* stream->stop_event is signaled
    stop_ts,            \* stream->stop_ts (usec)
    connecting,         \* stream->connecting
    active,             \* stream->active
    disconnected,       \* stream->disconnected
    sent_headers,       \* stream->sent_headers
    min_priority,       \* stream->min_priority
    min_drop_dts_usec,  \* stream->min_drop_dts_usec
    last_dts_usec,      \* stream->last_dts_usec
    drop_threshold_usec,\* stream->drop_threshold_usec
    dropped_frames,     \* stream->dropped_frames
    frames_sent,        \* stream->frames_sent
    total_bytes_sent,   \* stream->total_bytes_sent
    send_thread,        \* state of the pthread_t stream->send_thread
    status_thread,      \* state of the pthread_t stream->status_thread
    connect_thread,     \* state of the pthread_t stream->connect_thread
    ctl,                \* the host control thread: its call and position
    prod,               \* the host producer thread inside ftl_stream_data
    sendw,              \* the send worker: position and dequeued packet
    connw,              \* the connect worker: position and try_connect result
    statw,              \* the status worker of the current status_thread
    host,               \* what the host has been told (signals, capture)
    hist,               \* history of the run: packets freed, sent, swept
    packets_mutex,      \* the thread that holds stream->packets_mutex
    nal                 \* one video packet's bytes through send_packet

vars == <<packets, send_sem, stop_event, stop_ts, connecting, active,
          disconnected, sent_headers, min_priority, min_drop_dts_usec,
          last_dts_usec, drop_threshold_usec, dropped_frames, frames_sent,
          total_bytes_sent, send_thread, status_thread, connect_thread,
          ctl, prod, sendw, connw, statw, host, hist, packets_mutex,
          nal>>

queueVars == <<packets, min_priority, min_drop_dts_usec, last_dts_usec,
               dropped_frames>>
flagVars == <<connecting, active, disconnected, sent_headers>>
stopVars == <<stop_event, stop_ts>>
handleVars == <<send_thread, status_thread, connect_thread>>

(***************************************************************************)
(* Encoder packets.  A packet carries the fields the stream reads; id is   *)
(* the position of the packet in the producer's submissions.               *)
(***************************************************************************)
NoPacket == [id |-> 0, type |-> "none", keyframe |-> FALSE, priority |-> 0,
             drop_priority |-> 0, dts_usec |-> 0, sys_dts_usec |-> 0]

AudioKind == [type |-> "audio", keyframe |-> FALSE, priority |-> 0,
              drop_priority |-> 0]
KeyKind == [type |-> "video", keyframe |-> TRUE,
            priority |-> OBS_NAL_PRIORITY_HIGHEST,
            drop_priority |-> OBS_NAL_PRIORITY_HIGHEST]
LowKind == [type |-> "video", keyframe |-> FALSE, priority |-> 1,
            drop_priority |-> 1]
DispKind == [type |-> "video", keyframe |-> FALSE, priority |-> 0,
             drop_priority |-> 2]

PacketKinds == {AudioKind, KeyKind, LowKind, DispKind}
LifeKinds == {LowKind}

SendIdle(pc) == [pc |-> pc, pkt |-> NoPacket, wakeImm |-> FALSE,
                 deqStop |-> FALSE, seenTs |-> 0, discarded |-> FALSE]

\* the packet the encoder hands over as its n-th: timestamps grow with n
MkPacket(n, k) ==
    [id |-> n, type |-> k.type, keyframe |-> k.keyframe,
     priority |-> k.priority, drop_priority |-> k.drop_priority,
     dts_usec |-> n, sys_dts_usec |-> n]

ThresholdChoices == {0}
LifeThresholds == {0}
StopTsChoices == {0, 2000}

Max2(a, b) == IF a < b THEN b ELSE a

RECURSIVE MaxDropPriority(_)
MaxDropPriority(s) ==
    IF s = <<>> THEN 0
    ELSE Max2(Head(s).drop_priority, MaxDropPriority(Tail(s)))

Ids(s) == {s[i].id : i \in 1..Len(s)}

(***************************************************************************)
(* The queue and the drop policy, as operators on the queue record         *)
(*   [packets, min_priority, min_drop_dts_usec, last_dts_usec,             *)
(*    dropped_frames, swept]                                               *)
(* where swept is the list of packets a drop episode freed.                *)
(***************************************************************************)
QueueRec ==
    [packets |-> packets, min_priority |-> min_priority,
     min_drop_dts_usec |-> min_drop_dts_usec,
     last_dts_usec |-> last_dts_usec, dropped_frames |-> dropped_frames,
     swept |-> <<>>, episode |-> FALSE]

\* num_buffered_packets
num_buffered_packets(q) == Len(q.packets)

\* add_packet: push at the back and remember the dts
add_packet(q, p) ==
    [q EXCEPT !.packets = Append(@, p), !.last_dts_usec = p.dts_usec]

\* a faulty test that pushes only audio to new_buf
RetainedAudioOnly(p) == p.type = "audio"

\* the test of drop_frames: audio and HIGHEST video are pushed to new_buf
Retained(p) ==
    p.type = "audio" \/ p.drop_priority = OBS_NAL_PRIORITY_HIGHEST

NotRetained(p) == ~Retained(p)

RECURSIVE Reverse(_)
Reverse(s) == IF s = <<>> THEN <<>> ELSE Append(Reverse(Tail(s)), Head(s))

\* a faulty sweep that pushes the retained packets to the front of new_buf
NewBufFront(s) == Reverse(SelectSeq(s, Retained))

\* the order in which drop_frames pushes the retained packets to new_buf
NewBuf(s) == SelectSeq(s, Retained)

\* drop_frames: one sweep of the whole queue
drop_frames(q) ==
    LET gone == SelectSeq(q.packets, NotRetained)
    IN  [q EXCEPT
           !.packets = NewBuf(q.packets),
           !.min_priority = MaxDropPriority(gone),
           !.min_drop_dts_usec =
               IF q.packets = <<>> THEN 0
               ELSE q.packets[Len(q.packets)].dts_usec,
           !.dropped_frames = @ + Len(gone),
           !.swept = gone,
           !.episode = TRUE]

\* a drop test that waits for one packet more than MinDropQueueLen
ShouldDropAbove(q, threshold) ==
    /\ num_buffered_packets(q) > MinDropQueueLen
    /\ ~(Head(q.packets).dts_usec < q.min_drop_dts_usec)
    /\ q.last_dts_usec - Head(q.packets).dts_usec > threshold

\* the condition under which check_to_drop_frames calls drop_frames
ShouldDrop(q, threshold) ==
    /\ num_buffered_packets(q) >= MinDropQueueLen
    /\ ~(Head(q.packets).dts_usec < q.min_drop_dts_usec)
    /\ q.last_dts_usec - Head(q.packets).dts_usec > threshold

\* check_to_drop_frames
check_to_drop_frames(q, threshold) ==
    IF ShouldDrop(q, threshold) THEN drop_frames(q) ELSE q

\* a faulty admission test that also turns away a packet at min_priority
RejectedAtOrBelow(p, q) == p.priority <= q.min_priority

\* the admission test of add_video_packet
Rejected(p, q) == p.priority < q.min_priority

\* add_video_packet: the queue after the call, and whether it added
add_video_packet(q, p, threshold) ==
    LET q1 == check_to_drop_frames(q, threshold)
    IN  IF Rejected(p, q1)
        THEN [q |-> [q1 EXCEPT !.dropped_frames = @ + 1], added |-> FALSE]
        ELSE [q |-> add_packet([q1 EXCEPT !.min_priority = 0], p),
              added |-> TRUE]

\* the locked section of ftl_stream_data
LockedAdd(q, p, threshold, disc) ==
    IF disc THEN [q |-> q, added |-> FALSE]
    ELSE IF p.type = "video" THEN add_video_packet(q, p, threshold)
    ELSE [q |-> add_packet(q, p), added |-> TRUE]

(***************************************************************************)
(* Host side.  The host framework starts an output only when it is idle    *)
(* and notes the signals it has heard from the stream since that start.    *)
(***************************************************************************)
HostInit == [state |-> "idle", end_capture |-> FALSE,
             disconnected |-> FALSE, failed |-> FALSE]

\* obs_output_begin_data_capture
obs_output_begin_data_capture(h) ==
    [h EXCEPT !.state = "capturing"]

\* obs_output_end_data_capture
obs_output_end_data_capture(h) ==
    [h EXCEPT !.state = "idle", !.end_capture = TRUE]

\* obs_output_signal_stop(OBS_OUTPUT_DISCONNECTED)
signal_disconnected(h) ==
    [h EXCEPT !.state = "disconnected", !.disconnected = TRUE]

\* obs_output_signal_stop with a connect failure code
signal_failed(h) ==
    [h EXCEPT !.state = "idle", !.failed = TRUE]

(***************************************************************************)
(* History of the run, kept beside the program state: how often each       *)
(* packet copy was freed, what reached ingest, the last drop episode,       *)
(* whether a send_media call failed and, where trace is set, the           *)
(* send_media calls in the order they were made.                           *)
(***************************************************************************)
MaxId == Max2(MaxSubmits, MaxQSubmits)

HistInit ==
    [nfree |-> [i \in 1..MaxId |-> 0],
     sent |-> <<>>,
     stopSent |-> {},
     stopFreed |-> {},
     immDeq |-> FALSE,
     sweeps |-> 0,
     sweepBefore |-> <<>>,
     sweepAfter |-> <<>>,
     badJoin |-> FALSE,
     stopsInSession |-> 0,
     mediaFailed |-> FALSE,
     trace |-> FALSE,
     calls |-> <<>>,
     status |-> "none"]

\* obs_free_encoder_packet on the copy with this id
Free(h, id) == [h EXCEPT !.nfree[id] = @ + 1]

RECURSIVE FreeAll(_, _)
FreeAll(h, s) ==
    IF s = <<>> THEN h ELSE FreeAll(Free(h, Head(s).id), Tail(s))

\* a drop episode happened on queue before, leaving after
NoteSweep(h, q0, q1) ==
    IF q1.episode
    THEN [FreeAll(h, q1.swept) EXCEPT
            !.sweeps = 1,
            !.sweepBefore = q0.packets,
            !.sweepAfter = q1.packets]
    ELSE h

(***************************************************************************)
(* Thread handles.  A pthread_t field is "none" until pthread_create       *)
(* stores a thread in it, then "joinable" until the thread is joined       *)
(* ("joined") or detached ("detached").                                    *)
(***************************************************************************)
SendRunning == sendw.pc \notin {"none", "done"}
ConnectRunning == connw.pc \notin {"none", "done"}
StatusRunning == statw.pc = "poll" \/ statw.orphans > 0

\* the process died in an undefined pthread_join
Crashed == ctl.pc = "crashed" \/ connw.pc = "crashed"

\* stopping(): os_event_try(stop_event) != EAGAIN
stopping == stop_event

TypeOK ==
    /\ send_sem \in Nat
    /\ stop_event \in BOOLEAN
    /\ connecting \in BOOLEAN /\ active \in BOOLEAN
    /\ disconnected \in BOOLEAN
    /\ send_thread \in {"none", "joinable", "joined", "detached"}
    /\ status_thread \in {"none", "joinable", "joined", "detached"}
    /\ connect_thread \in {"none", "joinable", "joined", "detached"}


(***************************************************************************)
(* The NAL splitter: avc_get_video_frame and the video branch of           *)
(* send_packet, on the bytes of one packet.  Offsets count from 0 as the   *)
(* C pointers do; a read at or past the end of the buffer yields whatever  *)
(* byte lies there (junk).                                                 *)
(***************************************************************************)
\* sizeof(nalus) / sizeof(nalus[0]) of frame_of_nalus_t
NalusCapacity == 100

MaxNals == 3
MaxBody == 1
MaxLie == 1

\* first bytes of a NAL: IDR, P slice, SEI, AUD, filler, SEI with nri 1;
\* every further byte of a NAL is 170
HeaderBytes == {101, 65, 6, 9, 12, 38}
JunkBytes == {0, 101}

\* the top byte of an int: bit 7 is the sign
SignedTop(b) == IF b >= 128 THEN b - 256 ELSE b

ByteAt(d, i, junk) == IF i >= 0 /\ i < Len(d) THEN d[i + 1] ELSE junk

\* len = video_stream[0] << 24 | ... | video_stream[3]
Len32(d, at, junk) ==
    SignedTop(ByteAt(d, at, junk)) * 16777216
    + ByteAt(d, at + 1, junk) * 65536
    + ByteAt(d, at + 2, junk) * 256 + ByteAt(d, at + 3, junk)

\* len = video_stream[0] << 8 | video_stream[1]
Len16(d, at, junk) == ByteAt(d, at, junk) * 256 + ByteAt(d, at + 1, junk)

nalu_type(b) == b % 32
nri(b) == (b \div 32) % 4

\* the filter with nal_ref_idc left out
EmittedByType(b) ==
    nalu_type(b) # 12 /\ nalu_type(b) # 6 /\ nalu_type(b) # 9

\* line 332: the NAL units that are stored in coded_pic_buffer
Emitted(b) ==
    (nalu_type(b) # 12 /\ nalu_type(b) # 6 /\ nalu_type(b) # 9) \/ nri(b) # 0

\* line 342-344: the index whose send_marker_bit is set after the loop
MarkerIndex(total) == total - 1

FrameInit == [consumed |-> 0, at |-> 0, nalus |-> <<>>, ret |-> 0,
              wroteOutside |-> FALSE, readOutside |-> FALSE]

\* the loop of avc_get_video_frame, lines 291-340
RECURSIVE avc_loop(_, _, _, _)
avc_loop(d, junk, is_header, f) ==
    IF ~(f.consumed < Len(d)) THEN f
    ELSE IF Len(f.nalus) >= NalusCapacity THEN [f EXCEPT !.ret = -1]
    ELSE LET skip == IF is_header
                     THEN (IF f.consumed = 0 THEN 6 ELSE 1)
                     ELSE 0
             pre == IF is_header THEN 2 ELSE 4
             len == IF is_header THEN Len16(d, f.at + skip, junk)
                    ELSE Len32(d, f.at, junk)
             at == f.at + skip + pre
             b == ByteAt(d, at, junk)
             f1 == [f EXCEPT
                      !.consumed = f.consumed + skip + pre + len,
                      !.at = at + len,
                      !.readOutside = @ \/ at >= Len(d),
                      !.nalus = IF Emitted(b)
                                THEN Append(@, [ptr |-> at, len |-> len,
                                                send_marker_bit |-> 0])
                                ELSE @]
         IN  avc_loop(d, junk, is_header, f1)

\* avc_get_video_frame: the loop, then the marker on nalus[total - 1]
avc_get_video_frame(d, junk, is_header) ==
    LET f == avc_loop(d, junk, is_header, FrameInit)
        m == MarkerIndex(Len(f.nalus))
    IN  IF f.ret = -1 \/ is_header THEN f
        ELSE IF m >= 0 /\ m < Len(f.nalus)
        THEN [f EXCEPT !.nalus[m + 1].send_marker_bit = 1]
        ELSE [f EXCEPT !.wroteOutside = TRUE]

\* send_packet lines 357-371: one send_media call for each stored NAL
send_packet_video(d, junk, is_header) ==
    LET f == avc_get_video_frame(d, junk, is_header)
    IN  [calls |-> f.nalus,
         frames |-> Cardinality({i \in 1..Len(f.nalus) :
                                   f.nalus[i].send_marker_bit = 1}),
         wroteOutside |-> f.wroteOutside,
         readOutside |-> f.readOutside,
         ret |-> f.ret]

(***************************************************************************)
(* Packets for the splitter: lists of NAL units in the framing the         *)
(* encoder helpers produce.                                                *)
(***************************************************************************)
Be32(n) == <<(n \div 16777216) % 256, (n \div 65536) % 256,
             (n \div 256) % 256, n % 256>>
Be16(n) == <<(n \div 256) % 256, n % 256>>

Payload(u) == <<u.hdr>> \o [i \in 1..u.body |-> 170]

\* AVCC: every NAL behind its 4-byte length; the last length may overstate
RECURSIVE EncodeAvcc(_, _)
EncodeAvcc(units, lie) ==
    IF units = <<>> THEN <<>>
    ELSE LET u == Head(units)
             n == Len(Payload(u)) + (IF Len(units) = 1 THEN lie ELSE 0)
         IN  Be32(n) \o Payload(u) \o EncodeAvcc(Tail(units), lie)

\* the parameter-set blob: 6 bytes, then 2-byte lengths, 1 byte between
RECURSIVE EncodeHeaderRest(_)
EncodeHeaderRest(units) ==
    IF units = <<>> THEN <<>>
    ELSE <<1>> \o Be16(Len(Payload(Head(units)))) \o Payload(Head(units))
         \o EncodeHeaderRest(Tail(units))

EncodeHeader(units) ==
    <<1, 100, 0, 31, 255, 225>> \o Be16(Len(Payload(Head(units))))
    \o Payload(Head(units)) \o EncodeHeaderRest(Tail(units))

NalUnits == [hdr : HeaderBytes, body : 0..MaxBody]

UnitLists(n) == [1..n -> NalUnits]

NalIdle == [pc |-> "idle", units |-> <<>>, data |-> <<>>, lie |-> 0,
            is_header |-> FALSE, junk |-> 0, out |-> <<>>]

NalInput(us, lie, h, j) ==
    [pc |-> "ready", units |-> us, lie |-> lie, is_header |-> h,
     data |-> IF h THEN EncodeHeader(us) ELSE EncodeAvcc(us, lie),
     junk |-> j, out |-> <<>>]

\* packets with honest lengths, where no byte outside the buffer is read,
\* and packets whose last length overstates, with the byte that lies
\* behind the buffer
NalInputs(us) ==
    {NalInput(us, 0, h, 0) : h \in BOOLEAN}
    \cup {NalInput(us, lie, FALSE, j) : lie \in 1..MaxLie, j \in JunkBytes}

\* access units of P slices that fill coded_pic_buffer and overfill it
LongInputs ==
    {NalInput([i \in 1..n |-> [hdr |-> 65, body |-> 0]], 0, FALSE, 0) :
        n \in {NalusCapacity, NalusCapacity + 1}}

(***************************************************************************)
(* stream->packets_mutex.  It is "free" or names the thread that holds it. *)
(* Each section under the mutex is one action, which takes the mutex if    *)
(* the thread does not hold it yet, and releases it at its end; the lock   *)
(* can also be a step of its own (pthread_mutex_lock below), after which   *)
(* other threads run while the mutex is held.                              *)
(***************************************************************************)
Threads == {"producer", "send", "connect", "controller"}

\* pthread_mutex_lock would return at once for thread t
MutexFreeFor(t) == packets_mutex \in {"free", t}

\* a faulty section end that leaves the mutex with its holder
unlock_forgotten(holder) == holder

\* pthread_mutex_unlock
pthread_mutex_unlock(holder) == "free"

(***************************************************************************)
(* The producer: ftl_stream_data.                                          *)
(***************************************************************************)
Destroying == ctl.pc \in {"d_join_send1", "d_join_status", "d_join_connect",
                          "d_signal", "d_join_send2", "d_free", "destroyed",
                          "crashed"}

\* lines 809-815: the unlocked test and the copy of the packet
ftl_stream_data_enter(kinds, limit) ==
    /\ prod.pc = "idle"
    /\ prod.n < limit
    /\ ~Crashed
    /\ ~Destroying
    /\ \E k \in kinds :
         IF disconnected \/ ~active
         THEN prod' = prod
         ELSE prod' = [prod EXCEPT !.n = @ + 1, !.pc = "lock",
                                   !.pkt = MkPacket(prod.n + 1, k)]
    /\ UNCHANGED <<nal, packets_mutex,
                   hist, queueVars, send_sem, stopVars, flagVars,
                   drop_threshold_usec, frames_sent, total_bytes_sent,
                   handleVars,
                   ctl, sendw, connw, statw, host>>

\* lines 817-825: the section under packets_mutex
ftl_stream_data_locked ==
    /\ prod.pc = "lock"
    /\ ~Crashed
    /\ MutexFreeFor("producer")
    /\ packets_mutex' = pthread_mutex_unlock(packets_mutex)
    /\ LET r == LockedAdd(QueueRec, prod.pkt, drop_threshold_usec,
                          disconnected)
       IN  /\ packets' = r.q.packets
           /\ min_priority' = r.q.min_priority
           /\ min_drop_dts_usec' = r.q.min_drop_dts_usec
           /\ last_dts_usec' = r.q.last_dts_usec
           /\ dropped_frames' = r.q.dropped_frames
           /\ prod' = [prod EXCEPT !.pc = "unlocked", !.added = r.added]
           /\ hist' = NoteSweep(hist, QueueRec, r.q)
    /\ UNCHANGED <<nal, send_sem, stopVars, flagVars, drop_threshold_usec,
                   frames_sent, total_bytes_sent,
                   handleVars, ctl, sendw, connw, statw, host>>

\* a faulty submit that posts only when the queue was empty before
PostsIfFirst(added) == IF added /\ Len(packets) = 1 THEN 1 ELSE 0

\* lines 827-828: one os_sem_post for a packet that was added
Posts(added) == IF added THEN 1 ELSE 0

\* lines 827-830: post the semaphore, or free the copy that was not added
ftl_stream_data_post ==
    /\ prod.pc = "unlocked"
    /\ ~Crashed
    /\ IF prod.added
       THEN /\ send_sem' = send_sem + Posts(prod.added)
            /\ hist' = hist
       ELSE /\ send_sem' = send_sem
            /\ hist' = Free(hist, prod.pkt.id)
    /\ prod' = [prod EXCEPT !.pc = "idle", !.pkt = NoPacket,
                            !.added = FALSE]
    /\ UNCHANGED <<nal, packets_mutex,
                   queueVars, stopVars, flagVars, drop_threshold_usec,
                   frames_sent, total_bytes_sent,
                   handleVars, ctl, sendw, connw, statw, host>>

(***************************************************************************)
(* The send worker: send_thread.  Beside its position and the packet it    *)
(* holds, the worker's record notes what was true when it woke and when    *)
(* it dequeued: wakeImm, an immediate stop was pending when os_sem_wait    *)
(* returned; deqStop, stop_event was signaled when the packet was popped;  *)
(* seenTs, the stop_ts such a packet was compared with; discarded, it      *)
(* freed a packet at the stop deadline.                                    *)
(***************************************************************************)
\* send_packet returns ret, which it sets to 0 and never changes
send_packet_ret == 0

\* send_headers: send_video_header returns send_packet(...) >= 0
send_headers_ok == send_packet_ret >= 0

\* headers sent with the first keyframe of a session only
NeedsHeadersOnce(p) == p.keyframe /\ ~sent_headers

\* line 431: the packets for which send_thread calls send_headers
NeedsHeaders(p) == p.keyframe

\* a faulty deadline test that lets the packet at stop_ts through
PastDeadlineStrict(p, ts) == p.sys_dts_usec > ts

\* line 424: the packet is at or past the stop deadline
PastDeadline(p, ts) == p.sys_dts_usec >= ts

\* line 416: an immediate stop is pending
ImmediateStop == stopping /\ stop_ts = 0

\* line 413: os_sem_wait returns with one permit taken
send_thread_wait ==
    /\ sendw.pc = "wait"
    /\ ~Crashed
    /\ send_sem > 0
    /\ send_sem' = send_sem - 1
    /\ sendw' = [sendw EXCEPT !.pc = "woke", !.wakeImm = ImmediateStop]
    /\ UNCHANGED <<nal, packets_mutex,
                   queueVars, stopVars, flagVars, drop_threshold_usec,
                   frames_sent, total_bytes_sent,
                   handleVars, ctl, prod, connw, statw, host,
                   hist>>

\* lines 416-418: leave the loop on an immediate stop
send_thread_woke ==
    /\ sendw.pc = "woke"
    /\ ~Crashed
    /\ sendw' = [sendw EXCEPT !.pc = IF ImmediateStop THEN "exit" ELSE "deq",
                               !.wakeImm = @ /\ ~ImmediateStop]
    /\ UNCHANGED <<nal, packets_mutex, queueVars, send_sem, stopVars, flagVars,
                   drop_threshold_usec, frames_sent, total_bytes_sent,
                   handleVars, ctl, prod,
                   connw, statw, host, hist>>

\* lines 420-421: get_next_packet, back to the wait when the queue is empty
get_next_packet ==
    /\ sendw.pc = "deq"
    /\ ~Crashed
    /\ MutexFreeFor("send")
    /\ packets_mutex' = pthread_mutex_unlock(packets_mutex)
    /\ IF packets = <<>>
       THEN /\ sendw' = [sendw EXCEPT !.pc = "wait", !.wakeImm = FALSE]
            /\ packets' = packets
            /\ hist' = hist
       ELSE /\ sendw' = [sendw EXCEPT !.pc = "got", !.pkt = Head(packets),
                                      !.wakeImm = FALSE,
                                      !.deqStop = stopping]
            /\ packets' = Tail(packets)
            /\ hist' = [hist EXCEPT !.immDeq = @ \/ sendw.wakeImm]
    /\ UNCHANGED <<nal, min_priority, min_drop_dts_usec, last_dts_usec,
                   dropped_frames, send_sem, stopVars, flagVars,
                   drop_threshold_usec, frames_sent, total_bytes_sent,
                   handleVars, ctl, prod,
                   connw, statw, host>>

\* lines 423-428: while stopping, a packet at or past stop_ts is freed
send_thread_deadline ==
    /\ sendw.pc = "got"
    /\ ~Crashed
    /\ IF stopping /\ PastDeadline(sendw.pkt, stop_ts)
       THEN /\ sendw' = [sendw EXCEPT !.pc = "exit", !.pkt = NoPacket,
                                      !.deqStop = FALSE, !.discarded = TRUE]
            /\ hist' = [Free(hist, sendw.pkt.id) EXCEPT
                          !.stopFreed = @ \cup
                              {[sys |-> sendw.pkt.sys_dts_usec,
                                ts |-> stop_ts]}]
       ELSE /\ sendw' = [sendw EXCEPT !.pc = "send",
                                      !.seenTs = IF sendw.deqStop
                                                 THEN stop_ts ELSE 0]
            /\ hist' = hist
    /\ UNCHANGED <<nal, packets_mutex, queueVars, send_sem, stopVars, flagVars,
                   drop_threshold_usec, frames_sent, total_bytes_sent,
                   handleVars, ctl, prod,
                   connw, statw, host>>

\* what one ftl_ingest_send_media_dts call may do, and the bytes it returns
IngestResults == {"ok", "fail"}
IngestOk == {"ok"}
BytesOf(res) == IF res = "ok" THEN 1 ELSE 0

\* the encoder's extra data: an SPS and a PPS behind the avcC framing
ParamSets == <<[hdr |-> 103, body |-> 1], [hdr |-> 104, body |-> 1]>>
HeaderBlob == EncodeHeader(ParamSets)

\* send_video_header: the send_media calls of send_packet on the header
\* blob, each with the dts_usec send_thread passed to send_headers
HeaderCalls(p) ==
    LET c == send_packet_video(HeaderBlob, 0, TRUE).calls
    IN  [i \in 1..Len(c) |->
           [what |-> "header", id |-> p.id, key |-> TRUE,
            dts |-> p.dts_usec, marker |-> c[i].send_marker_bit]]

\* send_packet on the dequeued packet, its send_media calls taken as one
PacketCalls(p) ==
    <<[what |-> p.type, id |-> p.id, key |-> p.keyframe,
       dts |-> p.dts_usec, marker |-> IF p.type = "video" THEN 1 ELSE 0]>>

\* lines 431-441: send_headers on a keyframe, then send_packet, which frees
send_thread_step(results) ==
    /\ sendw.pc = "send"
    /\ ~Crashed
    /\ \E res \in results :
        LET hdr == NeedsHeaders(sendw.pkt)
            hdrFail == hdr /\ ~send_headers_ok
            pktFail == ~hdrFail /\ send_packet_ret < 0
            hcalls == IF hdr THEN HeaderCalls(sendw.pkt) ELSE <<>>
            pcalls == IF hdrFail THEN <<>> ELSE PacketCalls(sendw.pkt)
        IN  /\ sent_headers' = (sent_headers \/ hdr)
            /\ disconnected' = (disconnected \/ hdrFail \/ pktFail)
            /\ sendw' = [sendw EXCEPT
                           !.pc = IF hdrFail \/ pktFail THEN "exit"
                                  ELSE "wait",
                           !.pkt = NoPacket, !.deqStop = FALSE,
                           !.seenTs = 0]
            /\ frames_sent' = IF ~hdrFail /\ sendw.pkt.type = "video"
                              THEN frames_sent + 1 ELSE frames_sent
            /\ total_bytes_sent' = total_bytes_sent
                   + (Len(hcalls) + Len(pcalls)) * BytesOf(res)
            /\ LET h1 == [hist EXCEPT
                            !.mediaFailed = @ \/ res = "fail",
                            !.calls = IF hist.trace
                                      THEN @ \o hcalls \o pcalls ELSE @]
               IN  hist' = IF hdrFail THEN h1
                           ELSE [Free(h1, sendw.pkt.id) EXCEPT
                                   !.sent = Append(@, sendw.pkt.id),
                                   !.stopSent = IF sendw.deqStop
                                       THEN @ \cup
                                           {[sys |-> sendw.pkt.sys_dts_usec,
                                             ts |-> sendw.seenTs]}
                                       ELSE @]
    /\ UNCHANGED <<nal, packets_mutex,
                   queueVars, send_sem, stopVars, connecting, active,
                   drop_threshold_usec, handleVars, ctl, prod, connw,
                   statw, host>>

\* ingest accepts every call
send_thread_send == send_thread_step(IngestOk)

\* lines 444-455: detach and signal the host, or end the data capture
send_thread_exit ==
    /\ sendw.pc = "exit"
    /\ ~Crashed
    /\ IF ~stopping
       THEN /\ send_thread' = "detached"
            /\ host' = signal_disconnected(host)
       ELSE /\ send_thread' = send_thread
            /\ host' = obs_output_end_data_capture(host)
    /\ sendw' = [sendw EXCEPT !.pc = "fin"]
    /\ UNCHANGED <<nal, packets_mutex, queueVars, send_sem, stopVars, flagVars,
                   drop_threshold_usec, frames_sent, total_bytes_sent,
                   status_thread,
                   connect_thread, ctl, prod, connw, statw, hist>>

\* a faulty drain that pops the queued packets without freeing them
free_packets_leak(h) == h

\* free_packets: pop and free every queued packet
free_packets(h) == FreeAll(h, packets)

\* lines 457-466: ingest disconnect, drain, reset the event and the flags
send_thread_finish ==
    /\ sendw.pc = "fin"
    /\ ~Crashed
    /\ MutexFreeFor("send")
    /\ packets_mutex' = pthread_mutex_unlock(packets_mutex)
    /\ hist' = free_packets(hist)
    /\ packets' = <<>>
    /\ stop_event' = FALSE
    /\ active' = FALSE
    /\ sent_headers' = FALSE
    /\ sendw' = [sendw EXCEPT !.pc = "done"]
    /\ UNCHANGED <<nal, min_priority, min_drop_dts_usec, last_dts_usec,
                   dropped_frames, send_sem, stop_ts, connecting,
                   disconnected, drop_threshold_usec,
                   frames_sent, total_bytes_sent,
                   handleVars, ctl, prod, connw, statw, host>>

(***************************************************************************)
(* The status worker: status_thread.  It leaves its loop when ingest       *)
(* reports not-initialized or a disconnect; a timeout keeps it polling.    *)
(***************************************************************************)
StatusExits == {"not_initialized", "disconnect_api", "disconnect_other"}

\* what one leaving status thread does: lines 908-923 and 961-963
StatusLeave(r) ==
    IF ~disconnected /\ r = "disconnect_other"
    THEN /\ host' = signal_disconnected(host)
         /\ status_thread' = status_thread
    ELSE /\ host' = host
         /\ status_thread' = "detached"

\* the thread stored in stream->status_thread leaves
status_thread_leave ==
    /\ statw.pc = "poll"
    /\ ~Crashed
    /\ \E r \in StatusExits : StatusLeave(r)
    /\ statw' = [statw EXCEPT !.pc = "done"]
    /\ UNCHANGED <<nal, packets_mutex, queueVars, send_sem, stopVars, flagVars,
                   drop_threshold_usec, frames_sent, total_bytes_sent,
                   send_thread,
                   connect_thread, ctl, prod, sendw, connw, hist>>

\* a status thread of an earlier session, still polling, leaves
status_thread_orphan_leave ==
    /\ statw.orphans > 0
    /\ ~Crashed
    /\ \E r \in StatusExits : StatusLeave(r)
    /\ statw' = [statw EXCEPT !.orphans = @ - 1]
    /\ UNCHANGED <<nal, packets_mutex, queueVars, send_sem, stopVars, flagVars,
                   drop_threshold_usec, frames_sent, total_bytes_sent,
                   send_thread,
                   connect_thread, ctl, prod, sendw, connw, hist>>

(***************************************************************************)
(* pthread_join.  Joining a joinable thread waits for it to return.        *)
(* Joining a handle that holds no thread, or a thread already joined or    *)
(* detached, is undefined: the call returns an error at once or the        *)
(* process dies.                                                           *)
(***************************************************************************)
JoinResults(handle, finished, next) ==
    IF handle = "joinable"
    THEN IF finished
         THEN {[h |-> "joined", pc |-> next, bad |-> FALSE]}
         ELSE {}
    ELSE {[h |-> handle, pc |-> next, bad |-> TRUE],
          [h |-> handle, pc |-> "crashed", bad |-> TRUE]}

NoteJoin(h, r) == [h EXCEPT !.badJoin = @ \/ r.bad]


(***************************************************************************)
(* The connect worker: connect_thread, init_connect, try_connect,          *)
(* init_send.                                                              *)
(***************************************************************************)
\* init_connect lines 1011-1012: join the previous send thread if stopping
init_connect_join ==
    /\ connw.pc = "init"
    /\ ~Crashed
    /\ IF stopping
       THEN \E r \in JoinResults(send_thread, sendw.pc = "done", "init2") :
              /\ send_thread' = r.h
              /\ connw' = [connw EXCEPT !.pc = r.pc]
              /\ hist' = NoteJoin(hist, r)
       ELSE /\ connw' = [connw EXCEPT !.pc = "init2"]
            /\ UNCHANGED <<send_thread, hist>>
    /\ UNCHANGED <<nal, packets_mutex, queueVars, send_sem, stopVars, flagVars,
                   drop_threshold_usec, frames_sent, total_bytes_sent,
                   status_thread,
                   connect_thread, ctl, prod, sendw, statw, host>>

\* how init_connect ends: no service (line 1017), ftl_ingest_create fails
\* (line 1068), or it returns true
InitOutcomes == {"no_service", "create_failed", "ok"}

\* init_connect lines 1014-1087 and connect_thread lines 975-978
init_connect(thresholds) ==
    /\ connw.pc = "init2"
    /\ ~Crashed
    /\ MutexFreeFor("connect")
    /\ packets_mutex' = pthread_mutex_unlock(packets_mutex)
    /\ packets' = <<>>
    /\ \E o \in InitOutcomes, th \in thresholds :
         /\ IF o = "no_service"
            THEN UNCHANGED <<disconnected, total_bytes_sent, dropped_frames,
                             min_drop_dts_usec, min_priority>>
            ELSE /\ disconnected' = FALSE
                 /\ total_bytes_sent' = 0
                 /\ dropped_frames' = 0
                 /\ min_drop_dts_usec' = 0
                 /\ min_priority' = 0
         /\ IF o = "ok"
            THEN /\ drop_threshold_usec' = th
                 /\ connw' = [connw EXCEPT !.pc = "try"]
                 /\ host' = host
            ELSE /\ drop_threshold_usec' = drop_threshold_usec
                 /\ connw' = [connw EXCEPT !.pc = "done"]
                 /\ host' = signal_failed(host)
    /\ hist' = free_packets(hist)
    /\ UNCHANGED <<nal, last_dts_usec, send_sem, stopVars, connecting, active,
                   sent_headers, frames_sent, handleVars, ctl, prod, sendw,
                   statw>>

\* the status codes of the ingest library that the error map names, and
\* one value outside the enumeration
FtlErrorCodes ==
    {"FTL_SOCKET_NOT_CONNECTED", "FTL_MALLOC_FAILURE", "FTL_INTERNAL_ERROR",
     "FTL_CONFIG_ERROR", "FTL_NOT_ACTIVE_STREAM", "FTL_NOT_CONNECTED",
     "FTL_ALREADY_CONNECTED", "FTL_STATUS_TIMEOUT", "FTL_QUEUE_FULL",
     "FTL_STATUS_WAITING_FOR_KEY_FRAME", "FTL_QUEUE_EMPTY",
     "FTL_NOT_INITIALIZED"}

FtlConnectCodes ==
    {"FTL_BAD_REQUEST", "FTL_DNS_FAILURE", "FTL_CONNECT_ERROR",
     "FTL_UNSUPPORTED_MEDIA_TYPE", "FTL_OLD_VERSION", "FTL_UNAUTHORIZED",
     "FTL_AUDIO_SSRC_COLLISION", "FTL_VIDEO_SSRC_COLLISION",
     "FTL_STREAM_REJECTED", "FTL_BAD_OR_INVALID_STREAM_KEY",
     "FTL_CHANNEL_IN_USE", "FTL_REGION_UNSUPPORTED"}

FtlStatus ==
    {"FTL_SUCCESS", "FTL_NO_MEDIA_TIMEOUT", "FTL_USER_DISCONNECT",
     "FTL_UNKNOWN_ERROR_CODE", "outside_enum"}
    \cup FtlErrorCodes \cup FtlConnectCodes

\* the map with every failure taken for a failed connect
ftl_error_to_obs_error_flat(status) ==
    IF status = "FTL_SUCCESS" THEN "success" ELSE "connect_failed"

\* _ftl_error_to_obs_error lines 1090-1155: the switch, case by case
ftl_error_to_obs_error(status) ==
    CASE status = "FTL_SUCCESS" -> "success"
      [] status \in FtlErrorCodes -> "error"
      [] status \in FtlConnectCodes -> "connect_failed"
      [] status = "FTL_NO_MEDIA_TIMEOUT" -> "disconnected"
      [] status = "FTL_USER_DISCONNECT" -> "success"
      [] OTHER -> "error"

\* what ftl_ingest_connect may return when it fails (line 669)
ConnectFailures == FtlStatus \ {"FTL_SUCCESS"}

ConnectOutcomes == {"bad_path", "connect_failed", "no_send_thread", "success"}

\* try_connect lines 655-683 with init_send lines 549-566
try_connect_on(failures) ==
    /\ connw.pc = "try"
    /\ ~Crashed
    /\ \E o \in ConnectOutcomes, st \in failures :
         /\ connw' = [connw EXCEPT
                        !.pc = "fin",
                        !.ret = IF o = "connect_failed"
                                THEN ftl_error_to_obs_error(st) ELSE o]
         /\ hist' = IF hist.trace
                    THEN [hist EXCEPT !.status = IF o = "connect_failed"
                                                 THEN st ELSE "none"]
                    ELSE hist
         /\ IF o \in {"bad_path", "connect_failed"}
            THEN UNCHANGED <<status_thread, statw, send_sem, send_thread,
                             sendw, active, host>>
            ELSE /\ status_thread' = "joinable"
                 /\ statw' = [pc |-> "poll",
                              orphans |-> statw.orphans +
                                  (IF statw.pc = "poll" THEN 1 ELSE 0)]
                 /\ send_sem' = 0
                 /\ IF o = "success"
                    THEN /\ send_thread' = "joinable"
                         /\ sendw' = SendIdle("wait")
                         /\ active' = TRUE
                         /\ host' = obs_output_begin_data_capture(host)
                    ELSE UNCHANGED <<send_thread, sendw, active, host>>
    /\ UNCHANGED <<nal, packets_mutex,
                   queueVars, stopVars, connecting, disconnected,
                   sent_headers, drop_threshold_usec, frames_sent,
                   total_bytes_sent, connect_thread, ctl, prod>>

\* the ingest refuses the connection
try_connect == try_connect_on({"FTL_CONNECT_ERROR"})

\* the ingest fails the connect with any status
try_connect_any == try_connect_on(ConnectFailures)

\* connect_thread lines 982-991
connect_thread_finish ==
    /\ connw.pc = "fin"
    /\ ~Crashed
    /\ host' = IF connw.ret # "success" THEN signal_failed(host) ELSE host
    /\ connect_thread' = IF ~stopping THEN "detached" ELSE connect_thread
    /\ connecting' = FALSE
    /\ connw' = [pc |-> "done", ret |-> "success"]
    /\ UNCHANGED <<nal, packets_mutex,
                   queueVars, send_sem, stopVars, active, disconnected,
                   sent_headers, drop_threshold_usec,
                   frames_sent, total_bytes_sent,
                   send_thread, status_thread, ctl, prod, sendw, statw,
                   hist>>

(***************************************************************************)
(* The host control thread: ftl_stream_start, ftl_stream_stop,             *)
(* ftl_stream_destroy.                                                     *)
(***************************************************************************)
\* ftl_stream_start lines 685-701; the host starts an idle output only
ftl_stream_start ==
    /\ ctl.pc = "idle"
    /\ ~Crashed
    /\ host.state = "idle"
    /\ ctl.starts < MaxStarts
    /\ frames_sent' = 0
    /\ connecting' = TRUE
    /\ connect_thread' = "joinable"
    /\ connw' = [pc |-> "init", ret |-> "success"]
    /\ ctl' = [ctl EXCEPT !.starts = @ + 1]
    /\ host' = [HostInit EXCEPT !.state = "starting"]
    /\ hist' = [hist EXCEPT !.stopsInSession = 0]
    /\ UNCHANGED <<nal, packets_mutex,
                   queueVars, send_sem, stopVars, active, disconnected,
                   sent_headers, drop_threshold_usec, total_bytes_sent,
                   send_thread, status_thread, prod, sendw, statw>>

\* ftl_stream_stop lines 250-256: return if stopping, else see if connecting
ftl_stream_stop_enter ==
    /\ ctl.pc = "idle"
    /\ ~Crashed
    /\ hist.stopsInSession < MaxStops
    /\ \E ts \in StopTsChoices :
         ctl' = IF stopping THEN ctl
                ELSE [ctl EXCEPT !.ts = ts,
                        !.pc = IF connecting THEN "s_join_status"
                               ELSE "s_set"]
    /\ hist' = [hist EXCEPT !.stopsInSession = @ + 1]
    /\ UNCHANGED <<nal, packets_mutex, queueVars, send_sem, stopVars, flagVars,
                   drop_threshold_usec, frames_sent, total_bytes_sent,
                   handleVars, prod,
                   sendw, connw, statw, host>>

\* line 254 and line 183: pthread_join(stream->status_thread)
JoinStatus(at, next) ==
    /\ ctl.pc = at
    /\ ~Crashed
    /\ \E r \in JoinResults(status_thread, statw.pc = "done", next) :
         /\ status_thread' = r.h
         /\ ctl' = [ctl EXCEPT !.pc = r.pc]
         /\ hist' = NoteJoin(hist, r)
    /\ UNCHANGED <<nal, packets_mutex, queueVars, send_sem, stopVars, flagVars,
                   drop_threshold_usec, frames_sent, total_bytes_sent,
                   send_thread,
                   connect_thread, prod, sendw, connw, statw, host>>

\* line 255 and line 184: pthread_join(stream->connect_thread)
JoinConnect(at, next) ==
    /\ ctl.pc = at
    /\ ~Crashed
    /\ \E r \in JoinResults(connect_thread, connw.pc = "done", next) :
         /\ connect_thread' = r.h
         /\ ctl' = [ctl EXCEPT !.pc = r.pc]
         /\ hist' = NoteJoin(hist, r)
    /\ UNCHANGED <<nal, packets_mutex, queueVars, send_sem, stopVars, flagVars,
                   drop_threshold_usec, frames_sent, total_bytes_sent,
                   send_thread,
                   status_thread, prod, sendw, connw, statw, host>>

\* lines 178 and 194: pthread_join(stream->send_thread)
JoinSend(at, next) ==
    /\ ctl.pc = at
    /\ ~Crashed
    /\ \E r \in JoinResults(send_thread, sendw.pc = "done", next) :
         /\ send_thread' = r.h
         /\ ctl' = [ctl EXCEPT !.pc = r.pc]
         /\ hist' = NoteJoin(hist, r)
    /\ UNCHANGED <<nal, packets_mutex, queueVars, send_sem, stopVars, flagVars,
                   drop_threshold_usec, frames_sent, total_bytes_sent,
                   status_thread,
                   connect_thread, prod, sendw, connw, statw, host>>

ftl_stream_stop_join_status == JoinStatus("s_join_status", "s_join_connect")

ftl_stream_stop_join_connect == JoinConnect("s_join_connect", "s_set")

\* the value ftl_stream_stop stores in stop_ts: ts / 1000ULL
StopTsOf(ts) == ts \div 1000

\* the permits ftl_stream_stop posts: one when active and stop_ts is 0
StopPosts(act, ts) == IF act /\ ts = 0 THEN 1 ELSE 0

\* ftl_stream_stop lines 258-264
ftl_stream_stop_set ==
    /\ ctl.pc = "s_set"
    /\ ~Crashed
    /\ stop_ts' = StopTsOf(ctl.ts)
    /\ stop_event' = TRUE
    /\ send_sem' = send_sem + StopPosts(active, StopTsOf(ctl.ts))
    /\ ctl' = [ctl EXCEPT !.pc = "idle", !.ts = 0]
    /\ UNCHANGED <<nal, packets_mutex, queueVars, flagVars, drop_threshold_usec,
                   frames_sent, total_bytes_sent,
                   handleVars, prod, sendw, connw, statw, host, hist>>

\* the branch ftl_stream_destroy takes at lines 177-181
DestroyBranch ==
    IF stopping /\ ~connecting THEN "d_join_send1"
    ELSE IF connecting THEN "d_join_status"
    ELSE IF active THEN "d_signal"
    ELSE "d_free"

\* ftl_stream_destroy lines 177-181; the host destroys an output once,
\* with no packet being submitted
ftl_stream_destroy_enter ==
    /\ ctl.pc = "idle"
    /\ ~Crashed
    /\ prod.pc = "idle"
    /\ ctl' = [ctl EXCEPT !.pc = DestroyBranch]
    /\ UNCHANGED <<nal, packets_mutex, queueVars, send_sem, stopVars, flagVars,
                   drop_threshold_usec, frames_sent, total_bytes_sent,
                   handleVars, prod,
                   sendw, connw, statw, host, hist>>

ftl_stream_destroy_join_send1 == JoinSend("d_join_send1", "d_free")

ftl_stream_destroy_join_status == JoinStatus("d_join_status", "d_join_connect")

ftl_stream_destroy_join_connect == JoinConnect("d_join_connect", "d_signal")

\* ftl_stream_destroy lines 188-193
ftl_stream_destroy_signal ==
    /\ ctl.pc = "d_signal"
    /\ ~Crashed
    /\ stop_ts' = 0
    /\ stop_event' = TRUE
    /\ IF active
       THEN /\ send_sem' = send_sem + 1
            /\ host' = obs_output_end_data_capture(host)
            /\ ctl' = [ctl EXCEPT !.pc = "d_join_send2"]
       ELSE /\ UNCHANGED <<send_sem, host>>
            /\ ctl' = [ctl EXCEPT !.pc = "d_free"]
    /\ UNCHANGED <<nal, packets_mutex, queueVars, flagVars, drop_threshold_usec,
                   frames_sent, total_bytes_sent,
                   handleVars, prod, sendw, connw, statw, hist>>

ftl_stream_destroy_join_send2 == JoinSend("d_join_send2", "d_free")

\* ftl_stream_destroy lines 198-215: ingest destroy, free_packets, free
ftl_stream_destroy_free ==
    /\ ctl.pc = "d_free"
    /\ ~Crashed
    /\ MutexFreeFor("controller")
    /\ packets_mutex' = pthread_mutex_unlock(packets_mutex)
    /\ packets' = <<>>
    /\ hist' = free_packets(hist)
    /\ ctl' = [ctl EXCEPT !.pc = "destroyed"]
    /\ UNCHANGED <<nal, min_priority, min_drop_dts_usec, last_dts_usec,
                   dropped_frames, send_sem, stopVars, flagVars,
                   drop_threshold_usec, frames_sent, total_bytes_sent,
                   handleVars, prod,
                   sendw, connw, statw, host>>

(***************************************************************************)
(* The state after ftl_stream_create.                                      *)
(***************************************************************************)
lifeVars == <<packets, send_sem, stop_event, stop_ts, connecting, active,
              disconnected, sent_headers, min_priority, min_drop_dts_usec,
              last_dts_usec, drop_threshold_usec, dropped_frames,
              frames_sent, total_bytes_sent, send_thread, status_thread,
              connect_thread, ctl, prod, sendw, connw, statw, host, hist,
              packets_mutex>>

Created(h) ==
    /\ packets = <<>>
    /\ send_sem = 0
    /\ stop_event = FALSE
    /\ stop_ts = 0
    /\ connecting = FALSE
    /\ active = FALSE
    /\ disconnected = FALSE
    /\ sent_headers = FALSE
    /\ min_priority = 0
    /\ min_drop_dts_usec = 0
    /\ last_dts_usec = 0
    /\ drop_threshold_usec = 0
    /\ dropped_frames = 0
    /\ frames_sent = 0
    /\ total_bytes_sent = 0
    /\ send_thread = "none"
    /\ status_thread = "none"
    /\ connect_thread = "none"
    /\ ctl = [pc |-> "idle", ts |-> 0, starts |-> 0]
    /\ prod = [pc |-> "idle", pkt |-> NoPacket, added |-> FALSE, n |-> 0]
    /\ sendw = SendIdle("none")
    /\ connw = [pc |-> "none", ret |-> "success"]
    /\ statw = [pc |-> "none", orphans |-> 0]
    /\ host = HostInit
    /\ hist = h
    /\ packets_mutex = "free"

LifeInit == Created(HistInit)

Init ==
    /\ LifeInit
    /\ nal = NalIdle

(***************************************************************************)
(* The specification of the whole output.                                  *)
(***************************************************************************)
Producer(kinds, limit) ==
    \/ ftl_stream_data_enter(kinds, limit)
    \/ ftl_stream_data_locked
    \/ ftl_stream_data_post

SendWorker ==
    \/ send_thread_wait
    \/ send_thread_woke
    \/ get_next_packet
    \/ send_thread_deadline
    \/ send_thread_send
    \/ send_thread_exit
    \/ send_thread_finish

StatusWorker ==
    \/ status_thread_leave
    \/ status_thread_orphan_leave

ConnectWorker ==
    \/ init_connect_join
    \/ init_connect(LifeThresholds)
    \/ try_connect
    \/ connect_thread_finish

Stop ==
    \/ ftl_stream_stop_enter
    \/ ftl_stream_stop_join_status
    \/ ftl_stream_stop_join_connect
    \/ ftl_stream_stop_set

Destroy ==
    \/ ftl_stream_destroy_enter
    \/ ftl_stream_destroy_join_send1
    \/ ftl_stream_destroy_join_status
    \/ ftl_stream_destroy_join_connect
    \/ ftl_stream_destroy_signal
    \/ ftl_stream_destroy_join_send2
    \/ ftl_stream_destroy_free

Next ==
    \/ Producer(LifeKinds, MaxSubmits)
    \/ SendWorker
    \/ StatusWorker
    \/ ConnectWorker
    \/ ftl_stream_start
    \/ Stop
    \/ Destroy

Spec == Init /\ [][Next]_vars

(***************************************************************************)
(* The splitter on its own: any packet of the bounded shapes, through      *)
(* send_packet once.                                                       *)
(***************************************************************************)
SplitInit ==
    /\ LifeInit
    /\ nal = NalIdle

\* send_packet is called on a video packet
send_packet_enter ==
    /\ nal.pc = "idle"
    /\ \/ \E n \in 1..MaxNals : \E us \in UnitLists(n) :
             nal' \in NalInputs(us)
       \/ nal' \in LongInputs
    /\ UNCHANGED lifeVars

\* send_packet on the video packet nal.data
send_packet_split ==
    /\ nal.pc = "ready"
    /\ nal' = [nal EXCEPT !.pc = "sent",
                 !.out = send_packet_video(nal.data, nal.junk, nal.is_header)]
    /\ UNCHANGED lifeVars

SplitNext ==
    \/ send_packet_enter
    \/ send_packet_split

SplitSpec == SplitInit /\ [][SplitNext]_vars

(***************************************************************************)
(* One live session: the state after a successful connect (start,          *)
(* init_connect, try_connect, init_send, connect thread returned), with    *)
(* the producer submitting packets of every kind and the send worker       *)
(* draining them.  No stop is requested.                                   *)
(***************************************************************************)
LiveInit(h) ==
    /\ packets = <<>>
    /\ send_sem = 0
    /\ stop_event = FALSE
    /\ stop_ts = 0
    /\ connecting = FALSE
    /\ active = TRUE
    /\ disconnected = FALSE
    /\ sent_headers = FALSE
    /\ min_priority = 0
    /\ min_drop_dts_usec = 0
    /\ last_dts_usec = 0
    /\ drop_threshold_usec \in ThresholdChoices
    /\ dropped_frames = 0
    /\ frames_sent = 0
    /\ total_bytes_sent = 0
    /\ send_thread = "joinable"
    /\ status_thread = "joinable"
    /\ connect_thread = "detached"
    /\ ctl = [pc |-> "idle", ts |-> 0, starts |-> 1]
    /\ prod = [pc |-> "idle", pkt |-> NoPacket, added |-> FALSE, n |-> 0]
    /\ sendw = SendIdle("wait")
    /\ connw = [pc |-> "done", ret |-> "success"]
    /\ statw = [pc |-> "poll", orphans |-> 0]
    /\ host = [HostInit EXCEPT !.state = "capturing"]
    /\ hist = h
    /\ packets_mutex = "free"
    /\ nal = NalIdle

QInit == LiveInit(HistInit)

QNext ==
    \/ Producer(PacketKinds, MaxQSubmits)
    \/ send_thread_wait
    \/ send_thread_woke
    \/ get_next_packet
    \/ send_thread_deadline
    \/ send_thread_send

QSpec == QInit /\ [][QNext]_vars

(***************************************************************************)
(* The same session with every thread that can run running: the send       *)
(* worker takes its steps, and a submit that has begun finishes.  When     *)
(* the host submits is up to the host.  The packets are audio, droppable   *)
(* video and video that the admission test rejects after a drop episode.   *)
(***************************************************************************)
DrainKinds == {AudioKind, LowKind, DispKind}

DrainNext ==
    \/ Producer(DrainKinds, MaxQSubmits)
    \/ send_thread_wait
    \/ send_thread_woke
    \/ get_next_packet
    \/ send_thread_deadline
    \/ send_thread_send

DrainFair ==
    /\ WF_vars(ftl_stream_data_locked)
    /\ WF_vars(ftl_stream_data_post)
    /\ WF_vars(send_thread_wait)
    /\ WF_vars(send_thread_woke)
    /\ WF_vars(get_next_packet)
    /\ WF_vars(send_thread_deadline)
    /\ WF_vars(send_thread_send)

DrainSpec == QInit /\ [][DrainNext]_vars /\ DrainFair

(***************************************************************************)
(* One live session to its end: audio and droppable video submitted, the   *)
(* send worker, and the host stopping and destroying the output.           *)
(***************************************************************************)
SessionKinds == {AudioKind, LowKind}

SessionNext ==
    \/ Producer(SessionKinds, MaxQSubmits)
    \/ SendWorker
    \/ ftl_stream_stop_enter
    \/ ftl_stream_stop_set
    \/ ftl_stream_destroy_enter
    \/ ftl_stream_destroy_join_send1
    \/ ftl_stream_destroy_signal
    \/ ftl_stream_destroy_join_send2
    \/ ftl_stream_destroy_free

SessionSpec == QInit /\ [][SessionNext]_vars

(***************************************************************************)
(* A live session against an ingest whose send_media calls may fail, the   *)
(* calls recorded in order: audio, keyframes and droppable video, the      *)
(* send and status workers, and the host stopping the output.              *)
(***************************************************************************)
CallKinds == {AudioKind, KeyKind, LowKind}

send_thread_send_any == send_thread_step(IngestResults)

IngestWorkers ==
    \/ Producer(CallKinds, MaxCallSubmits)
    \/ send_thread_wait
    \/ send_thread_woke
    \/ get_next_packet
    \/ send_thread_deadline
    \/ send_thread_send_any
    \/ send_thread_exit
    \/ send_thread_finish
    \/ status_thread_leave

IngestNext ==
    \/ IngestWorkers
    \/ ftl_stream_stop_enter
    \/ ftl_stream_stop_set

IngestInit == LiveInit([HistInit EXCEPT !.trace = TRUE])

IngestSpec == IngestInit /\ [][IngestNext]_vars

(***************************************************************************)
(* Connect attempts alone: the host starts the output, the connect worker  *)
(* runs, the ingest answers the connect with any status.                   *)
(***************************************************************************)
ConnectNext ==
    \/ ftl_stream_start
    \/ init_connect_join
    \/ init_connect(LifeThresholds)
    \/ try_connect_any
    \/ connect_thread_finish

ConnectInit ==
    /\ Created([HistInit EXCEPT !.trace = TRUE])
    /\ nal = NalIdle

ConnectSpec == ConnectInit /\ [][ConnectNext]_vars

(***************************************************************************)
(* A live session whose send worker makes no progress, long enough for    *)
(* the queue to fill again after a drop episode: audio and droppable       *)
(* video are submitted, nothing is dequeued.                               *)
(***************************************************************************)
BacklogNext == Producer(SessionKinds, MaxBacklogSubmits)

BacklogSpec == QInit /\ [][BacklogNext]_vars

(***************************************************************************)
(* The send worker on every packet the encoder interface can hand over:    *)
(* struct encoder_packet carries keyframe for audio packets too, and       *)
(* ftl_stream_data copies the packet as it is.                             *)
(***************************************************************************)
AudioKeyKind == [type |-> "audio", keyframe |-> TRUE, priority |-> 0,
                 drop_priority |-> 0]

HeaderKinds == {AudioKind, AudioKeyKind, KeyKind, LowKind}

HeaderNext ==
    \/ Producer(HeaderKinds, MaxCallSubmits)
    \/ send_thread_wait
    \/ send_thread_woke
    \/ get_next_packet
    \/ send_thread_deadline
    \/ send_thread_send

HeaderSpec == IngestInit /\ [][HeaderNext]_vars

(***************************************************************************)
(* The whole output with the lock of packets_mutex as a step of its own:   *)
(* between a thread's pthread_mutex_lock and the end of its section the    *)
(* other threads run, and a thread that finds the mutex taken waits.  The  *)
(* output starts in a live session and can be stopped, restarted and       *)
(* destroyed; the status worker keeps polling, so a stop or destroy that   *)
(* finds connecting set waits in its join of the status thread.            *)
(***************************************************************************)
\* thread t is at a pthread_mutex_lock: line 817 in ftl_stream_data, line
\* 272 in get_next_packet, line 136 in free_packets as called at the end of
\* send_thread, in init_connect and in ftl_stream_destroy
AtLock(t) ==
    \/ t = "producer" /\ prod.pc = "lock"
    \/ t = "send" /\ sendw.pc \in {"deq", "fin"}
    \/ t = "connect" /\ connw.pc = "init2"
    \/ t = "controller" /\ ctl.pc = "d_free"

pthread_mutex_lock(t) ==
    /\ AtLock(t)
    /\ ~Crashed
    /\ packets_mutex = "free"
    /\ packets_mutex' = t
    /\ UNCHANGED <<nal, queueVars, send_sem, stopVars, flagVars,
                   drop_threshold_usec, frames_sent, total_bytes_sent,
                   handleVars, ctl, prod, sendw, connw, statw, host, hist>>

MutexHeld == packets_mutex # "free"

MutexNext ==
    \/ \E t \in Threads : pthread_mutex_lock(t)
    \/ ftl_stream_data_enter(LifeKinds, MaxSubmits)
    \/ MutexHeld /\ ftl_stream_data_locked
    \/ ftl_stream_data_post
    \/ send_thread_wait
    \/ send_thread_woke
    \/ MutexHeld /\ get_next_packet
    \/ send_thread_deadline
    \/ send_thread_send
    \/ send_thread_exit
    \/ MutexHeld /\ send_thread_finish
    \/ init_connect_join
    \/ MutexHeld /\ init_connect(LifeThresholds)
    \/ try_connect
    \/ connect_thread_finish
    \/ ftl_stream_start
    \/ ftl_stream_stop_enter
    \/ ftl_stream_stop_set
    \/ ftl_stream_destroy_enter
    \/ ftl_stream_destroy_join_send1
    \/ ftl_stream_destroy_signal
    \/ ftl_stream_destroy_join_send2
    \/ MutexHeld /\ ftl_stream_destroy_free

MutexSpec == QInit /\ [][MutexNext]_vars

(***************************************************************************)
(* Properties.                                                             *)
(***************************************************************************)
InSeq(p, s) == \E i \in 1..Len(s) : s[i] = p

MustKeep(p) ==
    p.type = "audio" \/ p.drop_priority = OBS_NAL_PRIORITY_HIGHEST

\* C1: in the last drop episode every audio packet and every video packet
\* with drop_priority = HIGHEST that was queued before the sweep is queued
\* after it, and every packet the sweep removed is a video packet with
\* drop_priority < HIGHEST.
C1_DropKeepsAudioAndHighest ==
    hist.sweeps > 0 =>
        \A i \in 1..Len(hist.sweepBefore) :
            LET p == hist.sweepBefore[i]
            IN  /\ MustKeep(p) => InSeq(p, hist.sweepAfter)
                /\ ~InSeq(p, hist.sweepAfter) =>
                       /\ p.type = "video"
                       /\ p.drop_priority < OBS_NAL_PRIORITY_HIGHEST

\* a sweep met audio, HIGHEST video and lower video, and removed a packet
C1_Witness ==
    /\ hist.sweeps > 0
    /\ \E i, j, k \in 1..Len(hist.sweepBefore) :
         /\ hist.sweepBefore[i].type = "audio"
         /\ hist.sweepBefore[j].type = "video"
         /\ hist.sweepBefore[j].drop_priority = OBS_NAL_PRIORITY_HIGHEST
         /\ ~InSeq(hist.sweepBefore[k], hist.sweepAfter)

StrictlyIncreasing(s) ==
    \A i, j \in 1..Len(s) : i < j => s[i] < s[j]

IdsOf(s) == [i \in 1..Len(s) |-> s[i].id]

\* C10: the packets passed to ingest went in the order the producer
\* submitted them (ids grow with submission), the queue holds packets in
\* submission order, and a drop episode leaves the packets it retains in
\* the order they had.
C10_SentInSubmitOrder ==
    /\ StrictlyIncreasing(hist.sent)
    /\ StrictlyIncreasing(IdsOf(packets))
    /\ hist.sweeps > 0 => StrictlyIncreasing(IdsOf(hist.sweepAfter))
    /\ \A i \in 1..Len(hist.sent), j \in 1..Len(packets) :
           hist.sent[i] < packets[j].id

\* audio and video were both sent, around a drop episode that removed a
\* packet submitted between two packets that were sent
C10_Witness ==
    /\ hist.sweeps > 0
    /\ \E i \in 1..Len(hist.sent) - 1 :
         /\ hist.sent[i] + 1 < hist.sent[i + 1]
         /\ InSeq(hist.sent[i + 1], IdsOf(hist.sweepAfter))
         /\ \E k \in 1..Len(hist.sweepBefore) :
              /\ hist.sweepBefore[k].id > hist.sent[i]
              /\ hist.sweepBefore[k].id < hist.sent[i + 1]
              /\ ~InSeq(hist.sweepBefore[k], hist.sweepAfter)

\* the places that hold the copy with this id: the queue, the send worker
\* between its dequeue and its send, the producer until it posts or frees
Holders(id) ==
    Cardinality({i \in 1..Len(packets) : packets[i].id = id})
    + (IF sendw.pkt.id = id THEN 1 ELSE 0)
    + (IF prod.pkt.id = id /\ (prod.pc = "lock" \/
                               (prod.pc = "unlocked" /\ ~prod.added))
       THEN 1 ELSE 0)

C5_DeadlineRespected ==
    /\ \A r \in hist.stopSent : r.sys < r.ts
    /\ \A r \in hist.stopFreed : r.sys >= r.ts
    /\ sendw.discarded => sendw.pc \in {"exit", "fin", "done"}
    /\ sendw.discarded => sendw.pkt = NoPacket
    /\ ~hist.immDeq
    /\ sendw.wakeImm => sendw.pc = "woke"

\* after stop with a deadline the worker sent a packet older than stop_ts,
\* discarded the packet at stop_ts itself, and exited
C5_Witness ==
    /\ \E r \in hist.stopSent : r.ts > 0
    /\ \E r \in hist.stopFreed : r.ts > 0 /\ r.sys = r.ts
    /\ sendw.discarded
    /\ sendw.pc = "done"

\* destroy has been entered and has not returned
DestroyInProgress ==
    ctl.pc \in {"d_join_send1", "d_join_status", "d_join_connect",
                "d_signal", "d_join_send2", "d_free"}

\* C2: a destroy that has been entered returns: while it has not, destroy
\* itself or the worker it waits for can take a step (no packet is
\* submitted during destroy, and every ingest call returns).
C2_DestroyReturns ==
    DestroyInProgress => ENABLED (Destroy \/ SendWorker)

\* C3: when destroy has returned, with no undefined join and no failed
\* connect before it, none of the send, connect and status workers is
\* still running.
C3_NoWorkerAfterDestroy ==
    (ctl.pc = "destroyed" /\ ~hist.badJoin /\ ~host.failed) =>
        ~SendRunning /\ ~ConnectRunning /\ ~StatusRunning

\* C4: while a stop with a deadline is pending on the active stream and no
\* submit or host call is in progress, the send worker can take a step
\* towards its exit; it is never left waiting for a packet that the
\* producer may not submit.
C4_DeadlineStopExits ==
    (stop_event /\ stop_ts > 0 /\ active /\ prod.pc = "idle"
     /\ ctl.pc = "idle") => ENABLED SendWorker

\* what a stop call may change
StopObservables == <<stop_event, stop_ts, active, send_sem, host>>

\* C6: a stop call that follows an earlier stop call of the same session
\* changes nothing of stop_event, stop_ts, active, the semaphore permits
\* and the host signals.
C6_StopIdempotent ==
    [][(ftl_stream_stop_set /\ hist.stopsInSession >= 2)
          => UNCHANGED StopObservables]_vars

MarkerCount(calls) ==
    Cardinality({i \in 1..Len(calls) : calls[i].send_marker_bit = 1})

\* C7: for a well-formed video packet sent with is_header = FALSE exactly
\* one send_media call carries marker = 1 and it is the last call, and no
\* marker is written outside the stored units; for a packet sent with
\* is_header = TRUE no call carries marker = 1.
C7_OneMarkerLast ==
    (nal.pc = "sent" /\ nal.lie = 0) =>
        IF nal.is_header
        THEN MarkerCount(nal.out.calls) = 0
        ELSE /\ MarkerCount(nal.out.calls) = 1
             /\ nal.out.calls[Len(nal.out.calls)].send_marker_bit = 1
             /\ ~nal.out.wroteOutside

\* the send worker is blocked in os_sem_wait and no post is on its way
WorkerBlocked ==
    /\ sendw.pc = "wait"
    /\ send_sem = 0
    /\ ~(prod.pc = "unlocked" /\ prod.added)
    /\ prod.pc # "lock"

\* C8: with no stop requested, the send worker is never blocked on the
\* semaphore while packets are queued, and once the producer stops
\* submitting the queue becomes and stays empty.
C8_QueueDrains ==
    /\ [](WorkerBlocked => packets = <<>>)
    /\ <>[](packets = <<>>)

\* the queue is empty again, the worker back at its wait, after a drop
\* episode removed queued packets whose permits had been posted
C8_Witness ==
    /\ packets = <<>>
    /\ sendw.pc = "wait"
    /\ prod.pc = "idle"
    /\ prod.n = MaxQSubmits
    /\ hist.sweeps > 0
    /\ hist.sweepBefore # hist.sweepAfter
    /\ hist.sent # <<>>


\* C11: total_bytes_sent never decreases from one step of the stream
\* instance to the next, over start, submit, send, stop and restart
C11_TotalBytesMonotone == [][total_bytes_sent' >= total_bytes_sent]_vars

\* the send worker has left its loop
SendLoopLeft == sendw.pc \in {"exit", "fin", "done"}

\* C12: once a send_media call has failed the send worker has set
\* disconnected and left its loop: it sends nothing more
C12_FailedSendDisconnects ==
    hist.mediaFailed => (disconnected /\ SendLoopLeft)

\* the outcome the error table gives for an ingest status
TableOutcome(st) ==
    IF st \in {"FTL_SUCCESS", "FTL_USER_DISCONNECT"} THEN "success"
    ELSE IF st \in {"FTL_BAD_REQUEST", "FTL_DNS_FAILURE", "FTL_CONNECT_ERROR",
                    "FTL_UNSUPPORTED_MEDIA_TYPE", "FTL_OLD_VERSION",
                    "FTL_UNAUTHORIZED", "FTL_AUDIO_SSRC_COLLISION",
                    "FTL_VIDEO_SSRC_COLLISION", "FTL_STREAM_REJECTED",
                    "FTL_BAD_OR_INVALID_STREAM_KEY", "FTL_CHANNEL_IN_USE",
                    "FTL_REGION_UNSUPPORTED"} THEN "connect_failed"
    ELSE IF st = "FTL_NO_MEDIA_TIMEOUT" THEN "disconnected"
    ELSE "error"

\* C16: the error map gives every ingest status the outcome of the table
\* (success and user_disconnect: success; the twelve connect errors:
\* connect_failed; no_media_timeout: disconnected; every other code, one
\* outside the enumeration included: error), and a failed connect hands
\* the connect worker the outcome of the status the ingest returned
C16_ErrorMap ==
    /\ \A st \in FtlStatus : ftl_error_to_obs_error(st) = TableOutcome(st)
    /\ (connw.pc = "fin" /\ hist.status # "none") =>
           connw.ret = TableOutcome(hist.status)

C16_Witness ==
    /\ connw.pc = "fin"
    /\ hist.status = "FTL_NO_MEDIA_TIMEOUT"
    /\ connw.ret = "disconnected"

\* a NAL unit the claim lets through: type not 6, 9 or 12, or nri not 0
PassesFilter(u) ==
    LET t == u.hdr % 32
        r == (u.hdr \div 32) % 4
    IN  t \notin {6, 9, 12} \/ r # 0

\* where the payloads of the passing units lie in the AVCC packet: unit
\* w.i begins behind its 4-byte length, w.off bytes into the packet
RECURSIVE PassingFrom(_, _)
PassingFrom(units, w) ==
    IF w.i > Len(units) THEN w.found
    ELSE LET u == units[w.i]
             n == 1 + u.body
         IN  PassingFrom(units,
                 [i |-> w.i + 1, off |-> w.off + 4 + n,
                  found |-> IF PassesFilter(u)
                            THEN Append(w.found,
                                        [ptr |-> w.off + 4, len |-> n,
                                         bytes |-> Payload(u)])
                            ELSE w.found])

PassingAt(units) == PassingFrom(units, [i |-> 1, off |-> 0, found |-> <<>>])

\* the send_media calls as places in the packet and the bytes there
CallsAt(d, calls) ==
    [i \in 1..Len(calls) |->
       [ptr |-> calls[i].ptr, len |-> calls[i].len,
        bytes |-> SubSeq(d, calls[i].ptr + 1, calls[i].ptr + calls[i].len)]]

HonestAvcc == nal.pc = "sent" /\ ~nal.is_header /\ nal.lie = 0

\* C13 as stated: for every AVCC packet whose lengths fit the buffer the
\* calls to ingest are exactly the NAL units that pass the filter, in
\* order, each with the place, length and bytes of the original payload
C13_EmitsPassingUnits ==
    HonestAvcc => CallsAt(nal.data, nal.out.calls) = PassingAt(nal.units)

\* C13 amended: the same, for packets in which at most NalusCapacity (100)
\* NAL units pass the filter
C13_EmitsPassingUnitsWithinCapacity ==
    (HonestAvcc /\ Len(PassingAt(nal.units)) <= NalusCapacity) =>
        CallsAt(nal.data, nal.out.calls) = PassingAt(nal.units)

C13_Witness ==
    /\ HonestAvcc
    /\ Len(nal.units) = 3
    /\ Len(nal.out.calls) = 2
    /\ \E i \in 1..3 : nal.units[i].hdr = 38
    /\ CallsAt(nal.data, nal.out.calls) = PassingAt(nal.units)

\* the parameter-set calls made for the packet of call i
HeaderCallsOf(i) ==
    {j \in 1..Len(hist.calls) :
        hist.calls[j].what = "header" /\ hist.calls[j].id = hist.calls[i].id}

\* C14: for every keyframe video packet handed to ingest, send_headers ran
\* once for it (one call per parameter set), every parameter-set call
\* carries marker 0 and the keyframe's dts_usec and precedes the packet's
\* own call, and sent_headers is true from the first header until the
\* send worker has exited
C14_HeadersBeforeKeyframe ==
    /\ \A i \in 1..Len(hist.calls) :
          (hist.calls[i].what = "video" /\ hist.calls[i].key) =>
              /\ Cardinality(HeaderCallsOf(i)) = Len(ParamSets)
              /\ \A j \in HeaderCallsOf(i) :
                    /\ j < i
                    /\ hist.calls[j].marker = 0
                    /\ hist.calls[j].dts = hist.calls[i].dts
    /\ ((\E j \in 1..Len(hist.calls) : hist.calls[j].what = "header")
           /\ sendw.pc # "done") => sent_headers

\* two keyframes sent, a packet between them
C14_Witness ==
    /\ Len(hist.calls) = 7
    /\ hist.calls[3].what = "video" /\ hist.calls[3].key
    /\ hist.calls[4].what = "audio"
    /\ hist.calls[7].what = "video" /\ hist.calls[7].key
    /\ sent_headers

\* the status worker has reported a disconnect to the host and the host
\* has called neither stop nor destroy
StatusDisconnectOnly ==
    /\ statw.pc = "done"
    /\ host.disconnected
    /\ ~stop_event
    /\ ctl.pc = "idle"

\* C15: after the status worker has signalled a disconnect to the host,
\* the send worker terminates without a stop call from the host: when no
\* packet is left to submit or send and no worker can take a step, the
\* send worker has returned
C15_DisconnectEndsSendWorker ==
    (StatusDisconnectOnly /\ ~ENABLED IngestWorkers) => sendw.pc = "done"

\* a video packet below the highest drop priority
DroppableVideo(p) ==
    p.type = "video" /\ p.drop_priority < OBS_NAL_PRIORITY_HIGHEST

\* the submit of a video packet finds at least 5 packets queued that span
\* more than the drop threshold
SubmitFindsBacklog ==
    /\ prod.pkt.type = "video"
    /\ Len(packets) >= 5
    /\ last_dts_usec - packets[1].dts_usec > drop_threshold_usec

\* C17: when the submit of a video packet finds at least 5 queued packets
\* spanning more than drop_threshold_usec, the queue it leaves holds no
\* video packet below the highest drop priority other than the packet
\* just submitted, also after an earlier drop episode of the session
C17_BacklogDropped ==
    [][(ftl_stream_data_locked /\ SubmitFindsBacklog) =>
          \A i \in 1..Len(packets') :
              DroppableVideo(packets'[i]) => packets'[i].id = prod.pkt.id]_vars

\* C17 amended: the same, for a submit whose head packet is not older
\* than the last packet of the latest drop episode (first.dts_usec >=
\* min_drop_dts_usec), the case in which check_to_drop_frames goes on to
\* the threshold test
C17_BacklogDroppedUnlessRecent ==
    [][(ftl_stream_data_locked /\ SubmitFindsBacklog
           /\ packets[1].dts_usec >= min_drop_dts_usec) =>
          \A i \in 1..Len(packets') :
              DroppableVideo(packets'[i]) => packets'[i].id = prod.pkt.id]_vars

\* the second drop episode of a session has just run in a video submit
\* (it dropped 4 packets, the first episode 5) and left retained audio and
\* the packet submitted
C17_Witness ==
    /\ prod.pc = "unlocked"
    /\ prod.pkt.type = "video"
    /\ prod.added
    /\ hist.sweeps > 0
    /\ Len(hist.sweepBefore) = 5
    /\ dropped_frames = 9
    /\ hist.sweepBefore[Len(hist.sweepBefore)].id = prod.pkt.id - 1
    /\ Len(packets) = 2
    /\ packets[1].type = "audio"
    /\ packets[2] = prod.pkt

\* C18: when the connect worker has returned, on whichever path (a failed
\* init_connect, a failed try_connect, success), connecting is false
C18_ConnectingCleared == connw.pc = "done" => ~connecting

\* stop found connecting set and has not come back from its joins
StopJoining == ctl.pc \in {"s_join_status", "s_join_connect"}

\* C19: a stop issued while connecting is true returns: while it is in
\* its joins, a join can complete or a worker of the stream can take a
\* step, with no event from the ingest needed (a live ingest reports
\* nothing that ends the status loop)
C19_StopWhileConnectingReturns ==
    StopJoining =>
        ENABLED (\/ ftl_stream_stop_join_status
                 \/ ftl_stream_stop_join_connect
                 \/ ConnectWorker
                 \/ SendWorker)

\* C20: for every AVCC-framed video packet, one whose last advertised
\* length exceeds the bytes that remain included, every NAL handed to
\* ingest lies inside the packet buffer and the splitter reads no byte at
\* or beyond data + size
C20_NalsInsideBuffer ==
    (nal.pc = "sent" /\ ~nal.is_header) =>
        /\ \A i \in 1..Len(nal.out.calls) :
              /\ nal.out.calls[i].ptr >= 0
              /\ nal.out.calls[i].ptr + nal.out.calls[i].len <= Len(nal.data)
        /\ ~nal.out.readOutside

\* C21: when more NAL units of a video packet pass the filter than
\* coded_pic_buffer takes (more than 100), the packet is aborted with an
\* error: no NAL unit of it is handed to ingest and no frame is counted
C21_OverfullPacketAborted ==
    (nal.pc = "sent" /\ ~nal.is_header /\ nal.lie = 0
        /\ Len(PassingAt(nal.units)) > 100) =>
        /\ nal.out.ret = -1
        /\ Len(nal.out.calls) = 0
        /\ nal.out.frames = 0

\* the locked section of one submit, and the step behind it
SubmitLocked == prod.pc = "lock" /\ prod'.pc = "unlocked"
SubmitPosted == prod.pc = "unlocked" /\ prod'.pc = "idle"

\* a drop episode ran in this step: it moves min_drop_dts_usec
EpisodeRan == min_drop_dts_usec' # min_drop_dts_usec

\* the queued packets this step discarded, and the greatest drop_priority
\* among them (0 if there is none)
DiscardedNow ==
    {packets[i] : i \in 1..Len(packets)}
        \ {packets'[i] : i \in 1..Len(packets')}

MaxDiscardedPriority ==
    IF DiscardedNow = {} THEN 0
    ELSE CHOOSE m \in {x.drop_priority : x \in DiscardedNow} :
           \A x \in DiscardedNow : x.drop_priority <= m

\* the queue as the episode (if any) left it, before the admission test
KeptNow ==
    LET keep == {i \in 1..Len(packets) : packets[i] \notin DiscardedNow}
        nth(k) == CHOOSE i \in keep :
                    Cardinality({j \in keep : j <= i}) = k
    IN  [k \in 1..Cardinality(keep) |-> packets[nth(k)]]

\* min_priority at the admission test
GateNow == IF EpisodeRan THEN MaxDiscardedPriority ELSE min_priority

\* C22: a drop episode leaves min_priority at the greatest drop_priority it
\* discarded; a video packet below min_priority is turned away (counted in
\* dropped_frames, queue and min_priority as they were, no permit), any
\* other video packet resets min_priority to 0, goes to the tail and gets
\* one permit; audio is always appended and leaves min_priority alone
C22_Admission ==
    [][/\ (SubmitLocked /\ ~disconnected /\ prod.pkt.type = "video") =>
            IF prod.pkt.priority < GateNow
            THEN /\ ~prod'.added
                 /\ packets' = KeptNow
                 /\ min_priority' = GateNow
                 /\ dropped_frames' =
                        dropped_frames + Cardinality(DiscardedNow) + 1
            ELSE /\ prod'.added
                 /\ packets' = Append(KeptNow, prod.pkt)
                 /\ min_priority' = 0
                 /\ dropped_frames' =
                        dropped_frames + Cardinality(DiscardedNow)
       /\ (SubmitLocked /\ ~disconnected /\ prod.pkt.type = "audio") =>
            /\ prod'.added
            /\ packets' = Append(packets, prod.pkt)
            /\ min_priority' = min_priority
            /\ dropped_frames' = dropped_frames
       /\ SubmitPosted =>
            /\ send_sem' = send_sem + (IF prod.added THEN 1 ELSE 0)
            /\ packets' = packets
            /\ min_priority' = min_priority]_vars

\* an episode has run and the min_priority it left has turned a video
\* packet away: the locked section is done, the copy is about to be freed
C22_Witness ==
    /\ prod.pc = "unlocked"
    /\ prod.pkt.type = "video"
    /\ ~prod.added
    /\ hist.sweeps = 1
    /\ min_priority > 0
    /\ prod.pkt.priority < min_priority

\* C23: parameter sets are sent only ahead of a video keyframe: no header
\* call is made for an audio packet, whatever its keyframe field
C23_HeadersForVideoKeyframesOnly ==
    \A i \in 1..Len(hist.calls) :
        hist.calls[i].what = "header" =>
            \A j \in 1..Len(hist.calls) :
                hist.calls[j].id = hist.calls[i].id =>
                    hist.calls[j].what # "audio"

\* the thread that takes the step: its record changes
Stepped(t) ==
    \/ t = "producer" /\ prod' # prod
    \/ t = "send" /\ sendw' # sendw
    \/ t = "connect" /\ connw' # connw
    \/ t = "controller" /\ ctl' # ctl

\* a step that posts, waits on or re-creates the semaphore, makes the
\* send_media calls of a packet, or connects to ingest
SemOrIngestStep ==
    \/ send_sem' # send_sem
    \/ Len(hist'.sent) > Len(hist.sent)
    \/ connw.pc = "try" /\ connw'.pc # "try"

BlockedOnMutex(t) == AtLock(t) /\ ~MutexFreeFor(t)
BlockedOnSem(t) == t = "send" /\ sendw.pc = "wait" /\ send_sem = 0

\* the section of the thread that holds the mutex
HolderSection ==
    \/ packets_mutex = "producer" /\ ftl_stream_data_locked
    \/ packets_mutex = "send" /\ (get_next_packet \/ send_thread_finish)
    \/ packets_mutex = "connect" /\ init_connect(LifeThresholds)
    \/ packets_mutex = "controller" /\ ftl_stream_destroy_free

\* C24: no thread holds packets_mutex while it posts or waits on send_sem
\* or makes an ingest call: the holder is inside its section and can always
\* finish it, so the threads are never all blocked on mutex and semaphore
C24_MutexNotHeldAcrossBlocking ==
    /\ [](~Crashed =>
            /\ \A t \in Threads : packets_mutex = t => AtLock(t)
            /\ MutexHeld => ENABLED HolderSection
            /\ ~\A t \in Threads : BlockedOnMutex(t) \/ BlockedOnSem(t))
    /\ [][\A t \in Threads :
            (Stepped(t) /\ SemOrIngestStep) => packets_mutex # t]_vars

\* the producer waits for the mutex that the send worker holds in
\* get_next_packet, with a packet queued and its permit taken
C24_Witness ==
    /\ packets_mutex = "send"
    /\ sendw.pc = "deq"
    /\ prod.pc = "lock"
    /\ packets # <<>>

\* C25: every pthread_join of stop, destroy and init_connect is on a handle
\* that holds a thread created in this instance, not yet joined and not
\* detached
C25_JoinsOnJoinableThreads == ~hist.badJoin

\* init_send has created a send worker in this step
SendWorkerSpawned ==
    connw.pc = "try" /\ ~SendRunning /\ sendw'.pc = "wait"

\* C26: stop_event is not signaled when init_send spawns a send worker: a
\* stop issued while no send worker exists does not reach the next
\* session's worker (runs with an undefined join set aside)
C26_SpawnedWithStopEventReset ==
    [][(SendWorkerSpawned /\ ~hist.badJoin) => ~stop_event']_vars

\* the permits not yet consumed: those in the semaphore, the one the
\* worker took and has not yet spent on get_next_packet, and the one the
\* producer is about to post for the packet it has just queued
PermitsLeft ==
    send_sem
    + (IF sendw.pc \in {"woke", "deq"} THEN 1 ELSE 0)
    + (IF prod.pc = "unlocked" /\ prod.added THEN 1 ELSE 0)

\* the send worker is in its loop
SendWorkerInLoop == sendw.pc \in {"wait", "woke", "deq", "got", "send"}

\* C27: while a send worker runs, the permits not yet consumed are at least
\* as many as the queued packets
C27_PermitsCoverQueue ==
    (SendWorkerInLoop /\ ~Crashed) => PermitsLeft >= Len(packets)

====
